---- MODULE Spec2Model ----
(***************************************************************************)
(* unbound_exporter: translation of Unbound's "stats_noreset" key=value    *)
(* feed into Prometheus samples (src/unbound_exporter.go).                 *)
(*                                                                         *)
(* Text is modelled by TLA+ strings, character by character.  Numbers      *)
(* that the program keeps in a uint64 or a float64 are modelled by natural *)
(* numbers of arbitrary size, written as sequences of decimal digits with  *)
(* the least significant digit first and no leading zero (0 is << >>), so  *)
(* that the 64-bit wrap-around of the counters and the overflow of a       *)
(* float64 are part of the model.  A finite float64 is modelled by the     *)
(* exact decimal it was read from, in units of 10^-6 (the resolution of    *)
(* Unbound's histogram keys); binary rounding of float64 is not modelled.  *)
(***************************************************************************)
EXTENDS Integers, Sequences, FiniteSets, TLC

(***************************************************************************)
(* Characters and strings                                                  *)
(***************************************************************************)
Char(s, i) == SubSeq(s, i, i)

Digits == {"0", "1", "2", "3", "4", "5", "6", "7", "8", "9"}

Letters ==
  {"a", "b", "c", "d", "e", "f", "g", "h", "i", "j", "k", "l", "m",
   "n", "o", "p", "q", "r", "s", "t", "u", "v", "w", "x", "y", "z",
   "A", "B", "C", "D", "E", "F", "G", "H", "I", "J", "K", "L", "M",
   "N", "O", "P", "Q", "R", "S", "T", "U", "V", "W", "X", "Y", "Z"}

\* regexp class \w (ASCII letters, digits, underscore) and class \d
WordChars == Letters \cup Digits \cup {"_"}

InClass(cls, c) ==
  CASE cls = "d" -> c \in Digits
    [] cls = "w" -> c \in WordChars
    [] OTHER -> FALSE

AllInClass(cls, s) == \A i \in 1..Len(s) : InClass(cls, Char(s, i))

HasPrefix(s, p) == Len(s) >= Len(p) /\ SubSeq(s, 1, Len(p)) = p

HasSuffix(s, p) == Len(s) >= Len(p) /\ SubSeq(s, Len(s) - Len(p) + 1, Len(s)) = p

DigitVal(c) ==
  CASE c = "0" -> 0 [] c = "1" -> 1 [] c = "2" -> 2 [] c = "3" -> 3
    [] c = "4" -> 4 [] c = "5" -> 5 [] c = "6" -> 6 [] c = "7" -> 7
    [] c = "8" -> 8 [] c = "9" -> 9

\* the positions of the separator sep (one character) in s
SepPositions(s, sep) == {i \in 1..Len(s) : Char(s, i) = sep}

\* strings.SplitN(s, sep, 2): a split at the first separator only
SplitAtFirst(s, sep) ==
  LET P == SepPositions(s, sep)
      first == CHOOSE p \in P : \A q \in P : p <= q
  IN  IF P = {} THEN << s >>
      ELSE << SubSeq(s, 1, first - 1), SubSeq(s, first + 1, Len(s)) >>

\* strings.Split(s, sep) for a one-character separator: every substring
\* between two separators, the empty ones included; << s >> when s has none.
Split(s, sep) ==
  LET P == SepPositions(s, sep)
      \* the k-th separator; 0 and Len(s) + 1 stand for the two ends
      At(k) == IF k = 0 THEN 0
               ELSE IF k > Cardinality(P) THEN Len(s) + 1
               ELSE CHOOSE p \in P : Cardinality({q \in P : q < p}) = k - 1
  IN  [k \in 1..(Cardinality(P) + 1) |-> SubSeq(s, At(k - 1) + 1, At(k) - 1)]

(***************************************************************************)
(* Natural numbers of arbitrary size (digit sequences, least significant   *)
(* digit first).                                                           *)
(***************************************************************************)
NDigit(a, i) == IF i <= Len(a) THEN a[i] ELSE 0

NTrim(a) ==
  LET nz == {i \in 1..Len(a) : a[i] # 0}
  IN  IF nz = {} THEN << >>
      ELSE SubSeq(a, 1, CHOOSE i \in nz : \A j \in nz : j <= i)

\* the number written by the string of decimal digits s
NFromString(s) == NTrim([i \in 1..Len(s) |-> DigitVal(Char(s, Len(s) + 1 - i))])

\* -1, 0, 1 as a < b, a = b, a > b
NCmp(a, b) ==
  IF Len(a) < Len(b) THEN -1
  ELSE IF Len(a) > Len(b) THEN 1
  ELSE LET D == {i \in 1..Len(a) : a[i] # b[i]}
       IN  IF D = {} THEN 0
           ELSE LET m == CHOOSE i \in D : \A j \in D : j <= i
                IN  IF a[m] < b[m] THEN -1 ELSE 1

\* a + b: position i receives a carry when some lower position overflows and
\* every position between the two is a 9
NAdd(a, b) ==
  LET n == (IF Len(a) > Len(b) THEN Len(a) ELSE Len(b)) + 1
      d == [k \in 1..n |-> NDigit(a, k) + NDigit(b, k)]
      carry(i) == \E j \in 1..(i - 1) : d[j] >= 10 /\ \A k \in (j + 1)..(i - 1) : d[k] = 9
  IN  NTrim([i \in 1..n |-> (d[i] + (IF carry(i) THEN 1 ELSE 0)) % 10])

\* a - b, for a >= b
NSub(a, b) ==
  LET d == [k \in 1..Len(a) |-> a[k] - NDigit(b, k)]
      borrow(i) == \E j \in 1..(i - 1) : d[j] < 0 /\ \A k \in (j + 1)..(i - 1) : d[k] = 0
  IN  NTrim([i \in 1..Len(a) |-> (d[i] - (IF borrow(i) THEN 1 ELSE 0) + 10) % 10])

\* a * 10^k
NShift(a, k) == IF a = << >> THEN a ELSE [i \in 1..k |-> 0] \o a

\* a * d for one digit d
NTimes(a, d) ==
  LET a2 == NAdd(a, a)
      a4 == NAdd(a2, a2)
      a8 == NAdd(a4, a4)
  IN  CASE d = 0 -> << >>
        [] d = 1 -> a
        [] d = 2 -> a2
        [] d = 3 -> NAdd(a2, a)
        [] d = 4 -> a4
        [] d = 5 -> NAdd(a4, a)
        [] d = 6 -> NAdd(a4, a2)
        [] d = 7 -> NAdd(a4, NAdd(a2, a))
        [] d = 8 -> a8
        [] d = 9 -> NAdd(a8, a)

RECURSIVE NMulFrom(_, _, _, _)
\* acc + (the digits of a from the i-th on) * b.  (The test on Len(acc) lets
\* TLC compute each partial sum before it goes on to the next.)
NMulFrom(a, b, i, acc) ==
  IF i > Len(a) \/ Len(acc) < 0 THEN acc
  ELSE NMulFrom(a, b, i + 1, NAdd(acc, NShift(NTimes(b, a[i]), i - 1)))

\* a * b, digit by digit of the shorter factor
NMul(a, b) ==
  IF Len(a) <= Len(b) THEN NMulFrom(a, b, 1, << >>) ELSE NMulFrom(b, a, 1, << >>)

(***************************************************************************)
(* uint64: histogramCount, the raw and the cumulative bucket counts        *)
(***************************************************************************)
\* 2^64
Two64 == NFromString("18446744073709551616")

\* a + b in a uint64: Go's unsigned addition wraps around
U64Add(a, b) ==
  LET t == NAdd(a, b) IN IF NCmp(t, Two64) >= 0 THEN NSub(t, Two64) ELSE t

\* strconv.ParseUint(s, 10, 64): a non-empty string of decimal digits (no
\* sign, no underscore) whose value is below 2^64; any other string is an
\* error (ErrSyntax, or ErrRange for a value of 2^64 or more).
ParseUint(s) ==
  IF s = "" \/ ~AllInClass("d", s) THEN [err |-> TRUE, v |-> << >>]
  ELSE LET n == NFromString(s)
       IN  IF NCmp(n, Two64) >= 0 THEN [err |-> TRUE, v |-> NSub(Two64, << 1 >>)]
           ELSE [err |-> FALSE, v |-> n]

(***************************************************************************)
(* float64: c is "fin", "inf" or "nan"; a finite value is                  *)
(* (-1)^neg * mag * 10^-scale, with scale = 0 or mag not a multiple of 10. *)
(* Zero is kept unsigned.                                                  *)
(***************************************************************************)
FZero == [c |-> "fin", neg |-> FALSE, mag |-> << >>, scale |-> 0]

FInf(neg) == [c |-> "inf", neg |-> neg, mag |-> << >>, scale |-> 0]

FNaN == [c |-> "nan", neg |-> FALSE, mag |-> << >>, scale |-> 0]

\* 2^1024 - 2^970: a decimal of this magnitude or more has no finite
\* float64 (it rounds to an infinity); every smaller one has.
FloatOverflow ==
  NFromString("179769313486231580793728971405303415079934132710037826936173778980444968292764750946649017977587207096330286416692887910946555547851940402630657488671505820681908902000708383676273854845817711531764475730270069855571366959622842914819860834936475292719074168444365510704342711559699508093042880177904174497792")

\* the decimal mag * 10^-scale without the zeros that end its fraction
FStrip(mag, scale) ==
  LET nz == {i \in 1..Len(mag) : mag[i] # 0}
      low == IF nz = {} THEN 0 ELSE (CHOOSE i \in nz : \A j \in nz : i <= j) - 1
      cut == IF low < scale THEN low ELSE scale
  IN  IF nz = {} THEN [mag |-> << >>, scale |-> 0]
      ELSE [mag |-> SubSeq(mag, cut + 1, Len(mag)), scale |-> scale - cut]

\* the float64 of the decimal (-1)^neg * mag * 10^-scale
FMake(neg, mag, scale) ==
  LET r == FStrip(NTrim(mag), scale)
      int == SubSeq(r.mag, r.scale + 1, Len(r.mag))
  IN  IF NCmp(int, FloatOverflow) >= 0 THEN FInf(neg)
      ELSE [c |-> "fin", neg |-> neg /\ r.mag # << >>, mag |-> r.mag, scale |-> r.scale]

\* float64(v) of a uint64 v
FromUint(v) == FMake(FALSE, v, 0)

FNeg(a) ==
  IF a.c = "nan" \/ (a.c = "fin" /\ a.mag = << >>) THEN a
  ELSE [a EXCEPT !.neg = ~a.neg]

FAdd(a, b) ==
  IF a.c = "nan" \/ b.c = "nan" THEN FNaN
  ELSE IF a.c = "inf" /\ b.c = "inf" THEN (IF a.neg = b.neg THEN a ELSE FNaN)
  ELSE IF a.c = "inf" THEN a
  ELSE IF b.c = "inf" THEN b
  ELSE LET sc == IF a.scale > b.scale THEN a.scale ELSE b.scale
           ma == NShift(a.mag, sc - a.scale)
           mb == NShift(b.mag, sc - b.scale)
       IN  IF a.neg = b.neg THEN FMake(a.neg, NAdd(ma, mb), sc)
           ELSE IF NCmp(ma, mb) >= 0 THEN FMake(a.neg, NSub(ma, mb), sc)
           ELSE FMake(b.neg, NSub(mb, ma), sc)

FSub(a, b) == FAdd(a, FNeg(b))

FMul(a, b) ==
  IF a.c = "nan" \/ b.c = "nan" THEN FNaN
  ELSE IF a.c = "inf" \/ b.c = "inf"
       THEN IF (a.c = "fin" /\ a.mag = << >>) \/ (b.c = "fin" /\ b.mag = << >>)
            THEN FNaN
            ELSE FInf(a.neg # b.neg)
  ELSE FMake(a.neg # b.neg, NMul(a.mag, b.mag), a.scale + b.scale)

\* s is t up to the case of its letters (t is given in lower case)
ToUpper(c) ==
  CASE c = "i" -> "I" [] c = "n" -> "N" [] c = "f" -> "F" [] c = "t" -> "T"
    [] c = "y" -> "Y" [] c = "a" -> "A" [] OTHER -> c

EqualFold(s, t) ==
  /\ Len(s) = Len(t)
  /\ \A i \in 1..Len(t) : Char(s, i) \in {Char(t, i), ToUpper(Char(t, i))}

\* strings.IndexByte(s, c) + 1: the position of the first c in s, or 0
IndexOf(s, c) ==
  LET P == SepPositions(s, c)
  IN  IF P = {} THEN 0 ELSE CHOOSE p \in P : \A q \in P : p <= q

\* strconv.ParseFloat(s, 64) on the literals the feed can carry: an optional
\* sign, then "inf" / "infinity" (any case), or digits with at most one "."
\* and at least one digit; "nan" (any case, unsigned).  A decimal too large
\* for a float64 is ErrRange, with an infinity as its value.  Every other
\* string is ErrSyntax.  (Exponents and hexadecimal literals, which ParseFloat
\* also reads, are left out: no line of the model's feeds has one.)
ParseFloat(s) ==
  LET signed == s # "" /\ Char(s, 1) \in {"+", "-"}
      neg == signed /\ Char(s, 1) = "-"
      body == IF signed THEN SubSeq(s, 2, Len(s)) ELSE s
      dot == IndexOf(body, ".")
      int == IF dot = 0 THEN body ELSE SubSeq(body, 1, dot - 1)
      frac == IF dot = 0 THEN "" ELSE SubSeq(body, dot + 1, Len(body))
  IN  IF EqualFold(body, "inf") \/ EqualFold(body, "infinity")
      THEN [err |-> FALSE, f |-> FInf(neg)]
      ELSE IF ~signed /\ EqualFold(body, "nan") THEN [err |-> FALSE, f |-> FNaN]
      ELSE IF ~(AllInClass("d", int) /\ AllInClass("d", frac) /\ int \o frac # "")
      THEN [err |-> TRUE, f |-> FZero]
      ELSE LET f == FMake(neg, NFromString(int \o frac), Len(frac))
           IN  [err |-> f.c = "inf", f |-> f]

(***************************************************************************)
(* The metric catalog                                                      *)
(***************************************************************************)
\* prometheus.BuildFQName("unbound", "", name)
BuildFQName(name) == "unbound_" \o name

\* prometheus.NewDesc(fqName, help, variableLabels, nil); the help text is
\* left out
NewDesc(fqName, variableLabels) == [fqName |-> fqName, variableLabels |-> variableLabels]

unboundUpDesc == NewDesc(BuildFQName("up"), << >>)

unboundHistogram == NewDesc(BuildFQName("response_time_seconds"), << >>)

\* Every pattern of the catalog is "^" pre "$" or "^" pre "(" class "+)" suf "$"
\* with pre and suf literal text (the "\." of the source is the character ".")
\* and class \w ("w") or \d ("d"); cls = "none" is a pattern without a group.
newUnboundMetric(name, valueType, labels, pre, cls, suf) ==
  [desc |-> NewDesc(BuildFQName(name), labels),
   valueType |-> valueType,
   pattern |-> [pre |-> pre, cls |-> cls, suf |-> suf]]

unboundMetrics ==
  << newUnboundMetric("answer_rcodes_total", "CounterValue", << "rcode" >>,
                      "num.answer.rcode.", "w", ""),
     newUnboundMetric("answers_bogus", "CounterValue", << >>,
                      "num.answer.bogus", "none", ""),
     newUnboundMetric("answers_secure_total", "CounterValue", << >>,
                      "num.answer.secure", "none", ""),
     newUnboundMetric("cache_hits_total", "CounterValue", << "thread" >>,
                      "thread", "d", ".num.cachehits"),
     newUnboundMetric("cache_misses_total", "CounterValue", << "thread" >>,
                      "thread", "d", ".num.cachemiss"),
     newUnboundMetric("memory_caches_bytes", "GaugeValue", << "cache" >>,
                      "mem.cache.", "w", ""),
     newUnboundMetric("memory_modules_bytes", "GaugeValue", << "module" >>,
                      "mem.mod.", "w", ""),
     newUnboundMetric("memory_sbrk_bytes", "GaugeValue", << >>,
                      "mem.total.sbrk", "none", ""),
     newUnboundMetric("prefetches_total", "CounterValue", << "thread" >>,
                      "thread", "d", ".num.prefetch"),
     newUnboundMetric("queries_total", "CounterValue", << "thread" >>,
                      "thread", "d", ".num.queries"),
     newUnboundMetric("query_classes_total", "CounterValue", << "class" >>,
                      "num.query.class.", "w", ""),
     newUnboundMetric("query_flags_total", "CounterValue", << "flag" >>,
                      "num.query.flags.", "w", ""),
     newUnboundMetric("query_ipv6_total", "CounterValue", << >>,
                      "num.query.ipv6", "none", ""),
     newUnboundMetric("query_opcodes_total", "CounterValue", << "opcode" >>,
                      "num.query.opcode.", "w", ""),
     newUnboundMetric("query_edns_DO_total", "CounterValue", << >>,
                      "num.query.edns.DO", "none", ""),
     newUnboundMetric("query_edns_present_total", "CounterValue", << >>,
                      "num.query.edns.present", "none", ""),
     newUnboundMetric("query_tcp_total", "CounterValue", << >>,
                      "num.query.tcp", "none", ""),
     newUnboundMetric("query_types_total", "CounterValue", << "type" >>,
                      "num.query.type.", "w", ""),
     newUnboundMetric("request_list_current_all", "GaugeValue", << "thread" >>,
                      "thread", "d", ".requestlist.current.all"),
     newUnboundMetric("request_list_current_user", "GaugeValue", << "thread" >>,
                      "thread", "d", ".requestlist.current.user"),
     newUnboundMetric("request_list_exceeded_total", "CounterValue", << "thread" >>,
                      "thread", "d", ".requestlist.exceeded"),
     newUnboundMetric("request_list_overwritten_total", "CounterValue", << "thread" >>,
                      "thread", "d", ".requestlist.overwritten"),
     newUnboundMetric("recursive_replies_total", "CounterValue", << "thread" >>,
                      "thread", "d", ".num.recursivereplies"),
     newUnboundMetric("rrset_bogus_total", "CounterValue", << >>,
                      "num.rrset.bogus", "none", ""),
     newUnboundMetric("time_elapsed_seconds", "CounterValue", << >>,
                      "time.elapsed", "none", ""),
     newUnboundMetric("time_now_seconds", "GaugeValue", << >>,
                      "time.now", "none", ""),
     newUnboundMetric("time_up_seconds_total", "CounterValue", << >>,
                      "time.up", "none", ""),
     newUnboundMetric("unwanted_queries_total", "CounterValue", << >>,
                      "unwanted.queries", "none", ""),
     newUnboundMetric("unwanted_replies_total", "CounterValue", << >>,
                      "unwanted.replies", "none", "") >>

\* pattern.FindStringSubmatch(s): << >> (nil) when s does not match, else s
\* followed by the text of each group
FindStringSubmatch(pattern, s) ==
  IF pattern.cls = "none"
  THEN IF s = pattern.pre THEN << s >> ELSE << >>
  ELSE LET group == SubSeq(s, Len(pattern.pre) + 1, Len(s) - Len(pattern.suf))
       IN  IF /\ Len(s) > Len(pattern.pre) + Len(pattern.suf)
              /\ HasPrefix(s, pattern.pre)
              /\ HasSuffix(s, pattern.suf)
              /\ AllInClass(pattern.cls, group)
           THEN << s, group >>
           ELSE << >>

\* \d+\.\d+
IsDecimal(s) ==
  LET dot == IndexOf(s, ".")
  IN  /\ 1 < dot
      /\ dot < Len(s)
      /\ AllInClass("d", SubSeq(s, 1, dot - 1))
      /\ AllInClass("d", SubSeq(s, dot + 1, Len(s)))

\* histogramPattern.FindStringSubmatch(s) for
\* histogramPattern = ^histogram\.(\d+\.\d+)\.to\.(\d+\.\d+)$ : neither group
\* has a "t", so the first "t" after the prefix is the one of ".to."
histogramPattern(s) ==
  LET rest == SubSeq(s, Len("histogram.") + 1, Len(s))
      t == IndexOf(rest, "t")
      lower == SubSeq(rest, 1, t - 2)
      upper == SubSeq(rest, t + 3, Len(rest))
  IN  IF /\ HasPrefix(s, "histogram.")
         /\ t > 1
         /\ t + 2 <= Len(rest)
         /\ SubSeq(rest, t - 1, t + 2) = ".to."
         /\ IsDecimal(lower)
         /\ IsDecimal(upper)
      THEN << s, lower, upper >>
      ELSE << >>

\* prometheus.MustNewConstMetric(desc, valueType, value, labelValues...)
MustNewConstMetric(desc, valueType, value, labelValues) ==
  [type |-> "metric", desc |-> desc, valueType |-> valueType,
   value |-> value, labelValues |-> labelValues]

\* prometheus.MustNewConstHistogram(desc, count, sum, buckets)
MustNewConstHistogram(desc, count, sum, buckets) ==
  [type |-> "histogram", desc |-> desc, count |-> count, sum |-> sum,
   buckets |-> buckets]

(***************************************************************************)
(* CollectFromReader, one line at a time                                   *)
(***************************************************************************)
RECURSIVE CatalogLoopAllGroups(_, _)
\* the catalog loop with matches... in place of matches[1:]...
CatalogLoopAllGroups(fields, i) ==
  IF i > Len(unboundMetrics) THEN [err |-> "nil", out |-> << >>]
  ELSE LET metric == unboundMetrics[i]
           matches == FindStringSubmatch(metric.pattern, fields[1])
           value == ParseFloat(fields[2])
       IN  IF matches = << >> THEN CatalogLoopAllGroups(fields, i + 1)
           ELSE IF value.err THEN [err |-> "ParseFloat", out |-> << >>]
           ELSE [err |-> "nil",
                 out |-> << MustNewConstMetric(metric.desc, metric.valueType,
                                               value.f, matches) >>]

RECURSIVE CatalogLoop(_, _)
\* for _, metric := range unboundMetrics { ... }, from the i-th entry on: the
\* error returned ("nil" when none) and the metrics sent to ch
CatalogLoop(fields, i) ==
  IF i > Len(unboundMetrics) THEN [err |-> "nil", out |-> << >>]
  ELSE LET metric == unboundMetrics[i]
           matches == FindStringSubmatch(metric.pattern, fields[1])
           value == ParseFloat(fields[2])
       IN  IF matches = << >> THEN CatalogLoop(fields, i + 1)
           ELSE IF value.err THEN [err |-> "ParseFloat", out |-> << >>]
           ELSE [err |-> "nil",
                 out |-> << MustNewConstMetric(metric.desc, metric.valueType,
                                               value.f, Tail(matches)) >>]

\* histogramBuckets[end] += value
SetBucketAdd(buckets, end, value) ==
  [k \in (DOMAIN buckets) \cup {end} |->
     IF k # end THEN buckets[k]
     ELSE IF end \in DOMAIN buckets THEN U64Add(buckets[end], value) ELSE value]

\* histogramBuckets[end] = value
SetBucket(buckets, end, value) ==
  [k \in (DOMAIN buckets) \cup {end} |-> IF k = end THEN value ELSE buckets[k]]

\* The body of the scanner loop for the line text, entered with the
\* accumulator acc = [count, sum, buckets]: the error it returns ("nil" when
\* the loop goes on), the metrics it sends to ch, and the accumulator after it.
LoopBody(text, acc) ==
  LET fields == Split(text, "=")
      metric == CatalogLoop(fields, 1)
      matches == histogramPattern(fields[1])
      begin == ParseFloat(matches[2]).f
      end == ParseFloat(matches[3]).f
      value == ParseUint(fields[2])
  IN  IF Len(fields) # 2
      THEN [err |-> "not a valid key-value pair", out |-> << >>, acc |-> acc]
      ELSE IF metric.err # "nil"
      THEN [err |-> metric.err, out |-> << >>, acc |-> acc]
      ELSE IF matches = << >>
      THEN [err |-> "nil", out |-> metric.out, acc |-> acc]
      ELSE IF value.err
      THEN [err |-> "ParseUint", out |-> metric.out, acc |-> acc]
      ELSE [err |-> "nil", out |-> metric.out,
            acc |-> [count |-> U64Add(acc.count, value.v),
                     sum |-> FAdd(acc.sum, FMul(FSub(end, begin), FromUint(value.v))),
                     buckets |-> SetBucket(acc.buckets, end, value.v)]]

\* a < b for two float64 that are not NaN
FLess(a, b) ==
  LET sc == IF a.scale > b.scale THEN a.scale ELSE b.scale
      ma == NShift(a.mag, sc - a.scale)
      mb == NShift(b.mag, sc - b.scale)
  IN  IF a.c = "inf" THEN a.neg /\ ~(b.c = "inf" /\ b.neg)
      ELSE IF b.c = "inf" THEN ~b.neg
      ELSE IF a.neg # b.neg THEN a.neg
      ELSE IF a.neg THEN NCmp(ma, mb) > 0
      ELSE NCmp(ma, mb) < 0

RECURSIVE SortFloat64s(_)
\* sort.Float64s(keys), for the keys of a map (no two are equal)
SortFloat64s(keys) ==
  IF keys = {} THEN << >>
  ELSE LET least == CHOOSE k \in keys : \A j \in keys : ~FLess(j, k)
       IN  << least >> \o SortFloat64s(keys \ {least})

\* the conversion left undone: the raw counts stay
CumulateNot(buckets, keys, i, prev) == buckets

RECURSIVE Cumulate(_, _, _, _)
\* for _, i := range keys { histogramBuckets[i] += prev; prev = histogramBuckets[i] }
Cumulate(buckets, keys, i, prev) ==
  IF i > Len(keys) THEN buckets
  ELSE LET v == U64Add(buckets[keys[i]], prev)
       IN  Cumulate([buckets EXCEPT ![keys[i]] = v], keys, i + 1, v)

\* The end of CollectFromReader: the histogram it sends to ch
Histogram(acc) ==
  MustNewConstHistogram(unboundHistogram, acc.count, acc.sum,
                        Cumulate(acc.buckets, SortFloat64s(DOMAIN acc.buckets), 1, << >>))

\* an accumulator whose count starts at 1
NewAccumulatorOne == [count |-> << 1 >>, sum |-> FZero, buckets |-> << >>]

\* histogramCount, histogramSum, histogramBuckets as CollectFromReader
\* creates them
NewAccumulator == [count |-> << >>, sum |-> FZero, buckets |-> << >>]

\* an up gauge that reports success whatever the scrape returned
UpMetricAlwaysOne(e) ==
  MustNewConstMetric(unboundUpDesc, "GaugeValue", FromUint(<< 1 >>), << >>)

\* The up gauge Collect ends with
UpMetric(e) ==
  MustNewConstMetric(unboundUpDesc, "GaugeValue",
                     IF e = "nil" THEN FromUint(<< 1 >>) ELSE FZero, << >>)

\* what Describe sends
DescribeOutput ==
  << unboundUpDesc >> \o [i \in 1..Len(unboundMetrics) |-> unboundMetrics[i].desc]

(***************************************************************************)
(* The exporter: Describe once at registration, then any number of         *)
(* scrapes, each a call of Collect with a channel and a connection of its  *)
(* own.                                                                    *)
(***************************************************************************)
\* The most lines one connection delivers
MaxLines == 3

\* The most lines a connection delivers when two scrapes run side by side
MaxConcLines == 2

RECURSIVE Zeros(_)
\* n characters "0"
Zeros(n) ==
  IF n = 0 THEN ""
  ELSE IF n % 2 = 0 THEN LET h == Zeros(n \div 2) IN h \o h
  ELSE "0" \o Zeros(n - 1)

\* A bucket whose upper bound, 10^309, has no finite float64
HugeBoundLine == "histogram.0.000000.to.1" \o Zeros(309) \o ".000000=1"

\* The text lines a connection can deliver
Lines ==
  {"num.query.tcp=42", "thread0.num.cachehits=7", "thread.num.cachehits=7",
   "foo.bar=1", "foo.bar=abc", "=5", "garbage", "", "num.query.tcp=", "num.query.tcp=4=2", "num.query.tcp=abc",
   "histogram.0.000000.to.0.000001=2", "histogram.0.000001.to.0.000002=3",
   "histogram.0.000001.to.0.000002=-1", "histogram.abc.to.def=1"}

\* Lines with a recognized key, whose value or bounds can or cannot be read
ValueLines ==
  {"num.query.tcp=42", "num.query.tcp=abc", "thread0.num.cachehits=0x7",
   "histogram.0.000000.to.0.000001=2", "histogram.0.000001.to.0.000002=-1",
   "histogram.0.000001.to.0.000002=1.5", "histogram.0.000001.to.0.000002=abc",
   HugeBoundLine}

\* The lines of the feeds the histogram is studied on
HistLines ==
  {"histogram.0.000000.to.0.000001=2", "histogram.0.000001.to.0.000002=3",
   "histogram.0.000000.to.0.000002=1", "histogram.0.000000.to.0.0000010=4",
   "histogram.0.000002.to.0.000004=18446744073709551615",
   "histogram.0.000004.to.0.000008=0",
   "foo.bar=1", HugeBoundLine}

\* The lines of the feeds of two concurrent scrapes
ConcLines ==
  {"num.query.tcp=42", "garbage", "histogram.0.000001.to.0.000002=3",
   "histogram.0.000000.to.0.000001=2"}

Scrapes == {1, 2}

VARIABLES
  registered,  \* prometheus.MustRegister(exporter) has returned
  descCh,      \* what Describe sent to its channel
  pc,          \* where each scrape is: "idle", "write", "scan", "up", "done"
  feed,        \* the lines each scrape's scanner has returned so far
  transport,   \* how each scrape's connection ended: "none" (not yet),
               \* "dial", "write", "read" (an error there) or "eof"
  acc,         \* each scrape's histogramCount, histogramSum, histogramBuckets
  ch,          \* each scrape's channel: the metrics sent so far
  err          \* the error CollectFromSocket returns to each scrape

vars == << registered, descCh, pc, feed, transport, acc, ch, err >>

Init ==
  /\ registered = FALSE
  /\ descCh = << >>
  /\ pc = [s \in Scrapes |-> "idle"]
  /\ feed = [s \in Scrapes |-> << >>]
  /\ transport = [s \in Scrapes |-> "none"]
  /\ acc = [s \in Scrapes |-> NewAccumulator]
  /\ ch = [s \in Scrapes |-> << >>]
  /\ err = [s \in Scrapes |-> "nil"]

\* main: prometheus.MustRegister(exporter) calls Describe
Describe ==
  /\ ~registered
  /\ registered' = TRUE
  /\ descCh' = DescribeOutput
  /\ UNCHANGED << pc, feed, transport, acc, ch, err >>

\* one accumulator for every scrape, as if histogramCount, histogramSum and
\* histogramBuckets were variables of the package
SharedOwner(s) == 1

\* whose accumulator the scrape s works on: its own, the three being local
\* variables of its call of CollectFromReader
Owner(s) == s

\* Collect is called with a new channel and CollectFromSocket dials
Dial(s) ==
  /\ registered
  /\ pc[s] \in {"idle", "done"}
  /\ ch' = [ch EXCEPT ![s] = << >>]
  /\ feed' = [feed EXCEPT ![s] = << >>]
  /\ acc' = [acc EXCEPT ![s] = NewAccumulator]
  /\ \E ok \in BOOLEAN :
       /\ pc' = [pc EXCEPT ![s] = IF ok THEN "write" ELSE "up"]
       /\ err' = [err EXCEPT ![s] = IF ok THEN "nil" ELSE "dial"]
       /\ transport' = [transport EXCEPT ![s] = IF ok THEN "none" ELSE "dial"]
  /\ UNCHANGED << registered, descCh >>

\* conn.Write of the stats_noreset command; then CollectFromReader starts
Write(s) ==
  /\ pc[s] = "write"
  /\ \E ok \in BOOLEAN :
       /\ pc' = [pc EXCEPT ![s] = IF ok THEN "scan" ELSE "up"]
       /\ err' = [err EXCEPT ![s] = IF ok THEN "nil" ELSE "write"]
       /\ transport' = [transport EXCEPT ![s] = IF ok THEN "none" ELSE "write"]
  /\ acc' = [acc EXCEPT ![Owner(s)] = NewAccumulator]
  /\ UNCHANGED << registered, descCh, feed, ch >>

\* scanner.Scan() returns true with the line text, and the loop body runs
ScanLine(s, text, max) ==
  /\ pc[s] = "scan"
  /\ Len(feed[s]) < max
  /\ LET r == LoopBody(text, acc[Owner(s)])
     IN  /\ feed' = [feed EXCEPT ![s] = Append(@, text)]
         /\ ch' = [ch EXCEPT ![s] = @ \o r.out]
         /\ acc' = [acc EXCEPT ![Owner(s)] = r.acc]
         /\ err' = [err EXCEPT ![s] = r.err]
         /\ pc' = [pc EXCEPT ![s] = IF r.err = "nil" THEN "scan" ELSE "up"]
  /\ UNCHANGED << registered, descCh, transport >>

\* scanner.Scan() returns false, at the end of the stream or on a read error:
\* the histogram is sent and scanner.Err() returned
ScanEnd(s) ==
  /\ pc[s] = "scan"
  /\ \E e \in {"eof", "read"} :
       /\ transport' = [transport EXCEPT ![s] = e]
       /\ err' = [err EXCEPT ![s] = IF e = "eof" THEN "nil" ELSE "read"]
  /\ ch' = [ch EXCEPT ![s] = Append(@, Histogram(acc[Owner(s)]))]
  /\ pc' = [pc EXCEPT ![s] = "up"]
  /\ UNCHANGED << registered, descCh, feed, acc >>

\* Collect sends the up gauge and returns
Up(s) ==
  /\ pc[s] = "up"
  /\ ch' = [ch EXCEPT ![s] = Append(@, UpMetric(err[s]))]
  /\ pc' = [pc EXCEPT ![s] = "done"]
  /\ UNCHANGED << registered, descCh, feed, transport, acc, err >>

\* One scrape at a time, on every kind of line
Next ==
  \/ Describe
  \/ Dial(1)
  \/ Write(1)
  \/ \E text \in Lines : ScanLine(1, text, MaxLines)
  \/ ScanEnd(1)
  \/ Up(1)

Spec == Init /\ [][Next]_vars

\* One scrape at a time, on feeds of histogram lines
NextHist ==
  \/ Describe
  \/ Dial(1)
  \/ Write(1)
  \/ \E text \in HistLines : ScanLine(1, text, MaxLines)
  \/ ScanEnd(1)
  \/ Up(1)

SpecHist == Init /\ [][NextHist]_vars

\* One scrape at a time, on lines with a recognized key
NextValues ==
  \/ Describe
  \/ Dial(1)
  \/ Write(1)
  \/ \E text \in ValueLines : ScanLine(1, text, MaxLines)
  \/ ScanEnd(1)
  \/ Up(1)

SpecValues == Init /\ [][NextValues]_vars

\* Two scrapes side by side
NextConc ==
  \/ Describe
  \/ \E s \in Scrapes :
       \/ Dial(s)
       \/ Write(s)
       \/ \E text \in ConcLines : ScanLine(s, text, MaxConcLines)
       \/ ScanEnd(s)
       \/ Up(s)

SpecConc == Init /\ [][NextConc]_vars

(***************************************************************************)
(* Properties                                                              *)
(***************************************************************************)
One == FromUint(<< 1 >>)

Last(q) == q[Len(q)]

Range(q) == {q[i] : i \in 1..Len(q)}

IsUp(m) == m.desc = unboundUpDesc

IsHistogram(m) == m.type = "histogram"

\* an ordinary Sample: a metric of the catalog
IsSample(m) == m.type = "metric" /\ ~IsUp(m)

\* C1, as claimed: whenever a scrape has failed, the only data point on its
\* channel is the up gauge with value 0 (no Sample, no HistogramSample).
C1_FailedScrapeEmitsOnlyUpZero ==
  \A s \in Scrapes :
    (pc[s] = "done" /\ err[s] # "nil") => ch[s] = << UpMetric(err[s]) >>

\* C2: every call of Collect emits exactly one up gauge, as the last metric
\* of the cycle; its value is 1 if and only if the scrape returned no error
\* (the connection was dialled and written to, every line read was accepted
\* and the stream ended without a read error), and 0 otherwise.
C2_ExactlyOneUpLast ==
  \A s \in Scrapes :
    LET ups == {i \in 1..Len(ch[s]) : IsUp(ch[s][i])}
        ok == /\ transport[s] = "eof"
              /\ \A i \in 1..Len(feed[s]) : LoopBody(feed[s][i], NewAccumulator).err = "nil"
    IN  /\ pc[s] # "done" => ups = {}
        /\ pc[s] = "done" =>
             /\ ups = {Len(ch[s])}
             /\ Last(ch[s]).type = "metric"
             /\ Last(ch[s]).valueType = "GaugeValue"
             /\ Last(ch[s]).labelValues = << >>
             /\ (Last(ch[s]).value = One) <=> (err[s] = "nil")
             /\ (Last(ch[s]).value = FZero) <=> (err[s] # "nil")
             /\ (err[s] = "nil") <=> ok

\* C2 witness: a scrape that failed after it had sent a Sample has ended with
\* the up gauge at 0
C2_Witness ==
  /\ pc[1] = "done"
  /\ err[1] = "not a valid key-value pair"
  /\ Len(ch[1]) = 2
  /\ Last(ch[1]).value = FZero

\* C10, as claimed: every metric a scrape sends uses a descriptor that
\* Describe has sent, and Describe sends the up descriptor, every catalog
\* entry's descriptor and the histogram's descriptor.
C10_EveryMetricIsDescribed ==
  registered =>
    /\ \A s \in Scrapes : \A i \in 1..Len(ch[s]) : ch[s][i].desc \in Range(descCh)
    /\ unboundUpDesc \in Range(descCh)
    /\ unboundHistogram \in Range(descCh)
    /\ \A i \in 1..Len(unboundMetrics) : unboundMetrics[i].desc \in Range(descCh)

(***************************************************************************)
(* What the specification says of one line, stated without the program's   *)
(* loop                                                                    *)
(***************************************************************************)
\* the number of "=" in the line
NumEq(text) == Cardinality({i \in 1..Len(text) : Char(text, i) = "="})

\* the first "=" of the line (0 when it has none)
FirstEq(text) == IndexOf(text, "=")

\* the text before and the text after the first "="
KeyOf(text) == SubSeq(text, 1, FirstEq(text) - 1)

ValueOf(text) == SubSeq(text, FirstEq(text) + 1, Len(text))

\* the catalog entries whose pattern matches the key
Matching(key) ==
  {i \in 1..Len(unboundMetrics) :
     FindStringSubmatch(unboundMetrics[i].pattern, key) # << >>}

\* the first of them in catalog order, 0 when there is none
FirstMatching(key) ==
  IF Matching(key) = {} THEN 0
  ELSE CHOOSE i \in Matching(key) : \A j \in Matching(key) : i <= j

\* The line has exactly one "="
Accepted(text) == NumEq(text) = 1

\* an accepted line whose key is in the catalog
IsStatLine(text) == Accepted(text) /\ FirstMatching(KeyOf(text)) # 0

\* an accepted line whose key is a histogram bucket
IsBucketLine(text) == Accepted(text) /\ histogramPattern(KeyOf(text)) # << >>

\* The Samples the specification has the line produce
RefSamplesOfLine(text) ==
  IF IsStatLine(text) /\ ~ParseFloat(ValueOf(text)).err
  THEN LET metric == unboundMetrics[FirstMatching(KeyOf(text))]
       IN  << [type |-> "metric", desc |-> metric.desc, valueType |-> metric.valueType,
               value |-> ParseFloat(ValueOf(text)).f,
               labelValues |-> Tail(FindStringSubmatch(metric.pattern, KeyOf(text)))] >>
  ELSE << >>

RECURSIVE RefSamples(_)
\* The Samples of a sequence of lines, in the order of the lines
RefSamples(lines) ==
  IF lines = << >> THEN << >>
  ELSE RefSamplesOfLine(Head(lines)) \o RefSamples(Tail(lines))

\* the scrape s has read at least one line and its last line is the last event
AtLastLine(s) == feed[s] # << >> /\ transport[s] = "none" /\ pc[s] \in {"scan", "up", "done"}

(***************************************************************************)
(* The line parser and the resolver                                        *)
(***************************************************************************)
\* C5, as claimed: a line is accepted exactly when it has at least one "=" and
\* the text before its first "=" (the key) and the text after it (the value)
\* are both non-empty; every other line fails with the FormatError.
C5_AcceptsNonEmptyKeyAndValue ==
  \A s \in Scrapes :
    AtLastLine(s) =>
      LET l == Last(feed[s])
          wellFormed == NumEq(l) >= 1 /\ KeyOf(l) # "" /\ ValueOf(l) # ""
      IN  (err[s] = "not a valid key-value pair") <=> ~wellFormed

\* C5, amended: the parser splits a line at every "="; a line is accepted
\* exactly when it has exactly one "=", the key being the text before it and
\* the value the text after it, either of which may be empty; every other
\* line (no "=", or two or more) fails with the FormatError, which ends the
\* scrape (no line is read after it).
C5_AcceptsExactlyOneEq ==
  \A s \in Scrapes :
    /\ \A i \in 1..(Len(feed[s]) - 1) : Accepted(feed[s][i])
    /\ \A i \in 1..Len(feed[s]) :
         Accepted(feed[s][i]) =>
           Split(feed[s][i], "=") = << KeyOf(feed[s][i]), ValueOf(feed[s][i]) >>
    /\ AtLastLine(s) =>
         /\ (err[s] = "not a valid key-value pair") <=> ~Accepted(Last(feed[s]))
         /\ ~Accepted(Last(feed[s])) => pc[s] # "scan"

\* C5 witness: a line with an empty key has been accepted and a line with two
\* "=" has then stopped the scrape
C5_Witness ==
  /\ feed[1] = << "=5", "num.query.tcp=4=2" >>
  /\ err[1] = "not a valid key-value pair"
  /\ pc[1] = "done"

\* C6, as claimed: the Samples on the channel are those of the lines read
\* (one per line whose key is in the catalog, for the first matching entry),
\* and an accepted line whose key matches no catalog entry raises no error
\* whatever its value is.
C6_NoErrorWithoutCatalogMatch ==
  \A s \in Scrapes :
    /\ SelectSeq(ch[s], IsSample) = RefSamples(feed[s])
    /\ (AtLastLine(s) /\ Accepted(Last(feed[s])) /\ ~IsStatLine(Last(feed[s])))
         => err[s] = "nil"

\* C6, amended: an accepted line (key, value) produces at most one Sample:
\* exactly one, for the first catalog entry in catalog order whose pattern
\* matches the key, with the pattern's groups as label values and the number
\* the value reads as, when the value reads as a float64 (none, the scrape
\* failing, when it does not); and none when no catalog entry matches, in
\* which case the line raises no error whatever its value is, unless its key
\* is a histogram bucket and its value no unsigned 64-bit integer.  The
\* Samples of the other lines of the feed are unchanged: the Samples on the
\* channel are those of the lines read, line by line and in their order.
C6_FirstMatchOneSample ==
  \A s \in Scrapes :
    /\ SelectSeq(ch[s], IsSample) = RefSamples(feed[s])
    /\ \A i \in 1..Len(feed[s]) : Len(RefSamplesOfLine(feed[s][i])) <= 1
    /\ (AtLastLine(s) /\ Accepted(Last(feed[s])) /\ ~IsStatLine(Last(feed[s])))
         => (err[s] = "nil" <=>
               ~(IsBucketLine(Last(feed[s])) /\ ParseUint(ValueOf(Last(feed[s]))).err))
    /\ (AtLastLine(s) /\ IsStatLine(Last(feed[s])))
         => (err[s] = "nil" <=> ~ParseFloat(ValueOf(Last(feed[s]))).err)
    /\ (pc[s] = "scan" /\ feed[s] = << "thread0.num.cachehits=7" >>)
         => ch[s] = << [type |-> "metric",
                        desc |-> [fqName |-> "unbound_cache_hits_total",
                                  variableLabels |-> << "thread" >>],
                        valueType |-> "CounterValue",
                        value |-> FromUint(<< 7 >>),
                        labelValues |-> << "0" >>] >>
    /\ (pc[s] = "scan" /\ feed[s] = << "num.query.tcp=42" >>)
         => ch[s] = << [type |-> "metric",
                        desc |-> [fqName |-> "unbound_query_tcp_total",
                                  variableLabels |-> << >>],
                        valueType |-> "CounterValue",
                        value |-> FromUint(<< 2, 4 >>),
                        labelValues |-> << >>] >>

\* C6 witness: an unknown key with a value that is no number was dropped
\* between two lines that each produced their Sample
C6_Witness ==
  /\ feed[1] = << "thread0.num.cachehits=7", "foo.bar=abc", "num.query.tcp=42" >>
  /\ pc[1] = "scan"
  /\ Len(ch[1]) = 2

\* C7: a scrape that succeeds has emitted, in this order, the Samples of its
\* lines in the order of the lines, exactly one HistogramSample, and the up
\* gauge; no HistogramSample is on the channel before the stream has ended;
\* when no line of the feed is a bucket line the HistogramSample has count 0,
\* sum 0 and no bucket; an empty stream gives no Sample.
C7_OneHistogramAfterSamples ==
  \A s \in Scrapes :
    LET q == ch[s]
        n == Len(q)
    IN  /\ pc[s] \in {"idle", "write", "scan"} => \A i \in 1..n : ~IsHistogram(q[i])
        /\ (pc[s] = "done" /\ err[s] = "nil") =>
             /\ n >= 2
             /\ {i \in 1..n : IsHistogram(q[i])} = {n - 1}
             /\ q[n - 1].desc = unboundHistogram
             /\ \A i \in 1..(n - 2) : IsSample(q[i])
             /\ SubSeq(q, 1, n - 2) = RefSamples(feed[s])
             /\ (\A i \in 1..Len(feed[s]) : ~IsBucketLine(feed[s][i])) =>
                  /\ q[n - 1].count = << >>
                  /\ q[n - 1].sum = FZero
                  /\ DOMAIN q[n - 1].buckets = {}
             /\ feed[s] = << >> => n = 2

\* C7 witness: a scrape of the empty stream has succeeded
C7_Witness ==
  /\ pc[1] = "done"
  /\ err[1] = "nil"
  /\ feed[1] = << >>
  /\ Len(ch[1]) = 2
  /\ IsHistogram(ch[1][1])

\* the bounds of a bucket line that ParseFloat cannot convert
BoundFails(text) ==
  LET matches == histogramPattern(KeyOf(text))
  IN  ParseFloat(matches[2]).err \/ ParseFloat(matches[3]).err

\* a line with a recognized key and a value, or bounds, that cannot be read
BadValue(text) ==
  \/ IsStatLine(text) /\ ParseFloat(ValueOf(text)).err
  \/ IsBucketLine(text) /\ (ParseUint(ValueOf(text)).err \/ BoundFails(text))

\* C8, as claimed: a line whose key is in the catalog and whose value is no
\* number, or whose key is a histogram bucket and whose count is no unsigned
\* integer or whose bounds cannot be converted, makes the scrape return an
\* error and stop: no Sample for that line, no later line processed, and the
\* scrape never reports success.
C8_BadValueStopsScrape ==
  \A s \in Scrapes :
    /\ \A i \in 1..(Len(feed[s]) - 1) : ~BadValue(feed[s][i])
    /\ (AtLastLine(s) /\ BadValue(Last(feed[s]))) =>
         /\ err[s] # "nil"
         /\ pc[s] # "scan"
         /\ SelectSeq(ch[s], IsSample) = RefSamples(SubSeq(feed[s], 1, Len(feed[s]) - 1))
    /\ (pc[s] = "done" /\ \E i \in 1..Len(feed[s]) : BadValue(feed[s][i])) =>
         Last(ch[s]).value = FZero

(***************************************************************************)
(* The histogram, stated from the bucket lines of the feed                 *)
(***************************************************************************)
\* the bucket a bucket line with the key matches and the value reports
BucketOf(matches, value) ==
  [lower |-> ParseFloat(matches[2]).f,
   upper |-> ParseFloat(matches[3]).f,
   count |-> ParseUint(value).v]

\* the bucket of the line when it is a bucket line, as a sequence
BucketsOfLine(text) ==
  IF Accepted(text)
  THEN LET matches == histogramPattern(KeyOf(text))
       IN  IF matches # << >> THEN << BucketOf(matches, ValueOf(text)) >> ELSE << >>
  ELSE << >>

RECURSIVE BucketsOf(_)
\* the buckets that the bucket lines of a sequence of lines report, in the
\* order of the lines
BucketsOf(lines) ==
  IF lines = << >> THEN << >>
  ELSE BucketsOfLine(Head(lines)) \o BucketsOf(Tail(lines))

\* the upper bounds of a sequence of buckets
Uppers(b) == {b[i].upper : i \in 1..Len(b)}

\* the raw count of an upper bound: that of the last bucket that reports it
RawOf(b, u) ==
  LET at == {i \in 1..Len(b) : b[i].upper = u}
  IN  b[CHOOSE i \in at : \A j \in at : j <= i].count

\* x + y, modulo 2^64 when wrap
Plus(wrap, x, y) == IF wrap THEN U64Add(x, y) ELSE NAdd(x, y)

RECURSIVE SumOfRaw(_, _, _)
\* the sum of the raw counts of the upper bounds U
SumOfRaw(b, U, wrap) ==
  IF U = {} THEN << >>
  ELSE LET u == CHOOSE x \in U : TRUE
       IN  Plus(wrap, RawOf(b, u), SumOfRaw(b, U \ {u}, wrap))

\* the cumulative count of an upper bound: its raw count plus the raw counts
\* of the smaller upper bounds
CumulativeOf(b, u, wrap) ==
  SumOfRaw(b, {v \in Uppers(b) : v = u \/ FLess(v, u)}, wrap)

RECURSIVE SumOfCounts(_, _)
\* the sum of the counts of all the buckets
SumOfCounts(b, wrap) ==
  IF b = << >> THEN << >>
  ELSE Plus(wrap, Head(b).count, SumOfCounts(Tail(b), wrap))

RECURSIVE SumOfWidths(_, _)
\* total + the sum over the buckets, in their order, of (upper - lower) * count
SumOfWidths(b, total) ==
  IF b = << >> THEN total
  ELSE SumOfWidths(Tail(b),
         FAdd(total, FMul(FSub(Head(b).upper, Head(b).lower), FromUint(Head(b).count))))

\* The HistogramSample the specification gives for a sequence of buckets; the
\* counts are added modulo 2^64 when wrap, and without a limit when not
HistogramOfBuckets(b, wrap) ==
  [type |-> "histogram",
   desc |-> unboundHistogram,
   count |-> SumOfCounts(b, wrap),
   sum |-> SumOfWidths(b, FZero),
   buckets |-> [u \in Uppers(b) |-> CumulativeOf(b, u, wrap)]]

RefHistogram(lines, wrap) == HistogramOfBuckets(BucketsOf(lines), wrap)

\* the HistogramSamples on the channel of s
HistogramsOf(s) == {ch[s][i] : i \in {j \in 1..Len(ch[s]) : IsHistogram(ch[s][j])}}

Micro(n) == FMake(FALSE, << n >>, 6)

NonDecreasing(h) ==
  \A u, v \in DOMAIN h.buckets : FLess(u, v) => NCmp(h.buckets[u], h.buckets[v]) <= 0

\* the cumulative count of the largest upper bound is the total count
LargestIsCount(h) ==
  \A u \in DOMAIN h.buckets :
    (\A v \in DOMAIN h.buckets : ~FLess(u, v)) => h.buckets[u] = h.count

\* no two buckets have the same upper bound
DistinctUpperBounds(b) == \A i, j \in 1..Len(b) : i # j => b[i].upper # b[j].upper

\* C3, as claimed: in every emitted HistogramSample the cumulative counts do
\* not decrease as the upper bound increases and the cumulative count of the
\* largest upper bound is the total count.
C3_CumulativeAlways ==
  \A s \in Scrapes : \A h \in HistogramsOf(s) : NonDecreasing(h) /\ LargestIsCount(h)

\* C3, amended: in every emitted HistogramSample the cumulative count of the
\* largest upper bound is the sum, modulo 2^64, of the counts recorded for
\* the upper bounds (for each bound, that of the last line reporting it); it
\* is the total count when no two bucket lines report the same upper bound.
\* The cumulative counts do not decrease as the upper bound increases when
\* the counts of the bucket lines add up to less than 2^64.
C3_CumulativeWhenWellFormed ==
  \A s \in Scrapes : \A h \in HistogramsOf(s) :
    LET b == BucketsOf(feed[s])
        recorded == SumOfRaw(b, Uppers(b), TRUE)
    IN  /\ \A u \in DOMAIN h.buckets :
             (\A v \in DOMAIN h.buckets : ~FLess(u, v)) => h.buckets[u] = recorded
        /\ NCmp(SumOfCounts(b, FALSE), Two64) < 0 => NonDecreasing(h)
        /\ DistinctUpperBounds(b) => LargestIsCount(h)

\* C3 witness: a histogram of three distinct buckets, the largest of them
\* holding the total count
C3_Witness ==
  /\ feed[1] = << "histogram.0.000001.to.0.000002=3", "histogram.0.000004.to.0.000008=0",
                  "histogram.0.000000.to.0.000001=2" >>
  /\ \E h \in HistogramsOf(1) :
       /\ Cardinality(DOMAIN h.buckets) = 3
       /\ h.buckets[Micro(8)] = << 5 >>
       /\ h.count = << 5 >>

(***************************************************************************)
(* Scrapes side by side                                                    *)
(***************************************************************************)
\* the up gauge with the value v
UpGauge(v) ==
  [type |-> "metric", desc |-> unboundUpDesc, valueType |-> "GaugeValue",
   value |-> v, labelValues |-> << >>]

\* What the scrape s, where it is, has sent when it runs alone on its stream:
\* the Samples of the lines it has read, the HistogramSample of these lines
\* once its stream has ended, and the up gauge once Collect has returned
AloneOn(s) ==
  RefSamples(feed[s])
    \o (IF transport[s] \in {"eof", "read"} THEN << RefHistogram(feed[s], TRUE) >> ELSE << >>)
    \o (IF pc[s] = "done"
        THEN << UpGauge(IF transport[s] = "eof" THEN One ELSE FZero) >>
        ELSE << >>)

\* C9: under every interleaving of the steps of two scrapes, each scrape has
\* on its own channel exactly what it sends when it runs alone on its own
\* stream, whatever the other scrape reads and whether or not it fails.
C9_EachScrapeAsAlone == \A s \in Scrapes : ch[s] = AloneOn(s)

\* C9 witness: the two scrapes are both in their scan loops, each with a
\* bucket of its own accumulated
C9_Witness ==
  /\ pc[1] = "scan"
  /\ pc[2] = "scan"
  /\ feed[1] = << "histogram.0.000001.to.0.000002=3" >>
  /\ feed[2] = << "num.query.tcp=42", "histogram.0.000000.to.0.000001=2" >>
  /\ acc[1].count = << 3 >>
  /\ acc[2].count = << 2 >>
  /\ Len(ch[2]) = 1

====
